---- MODULE Spec2Model ----
(***************************************************************************)
(* Model of the Squamish wind bot (src/model_and_app.py): the normaliser   *)
(* process_data, the rule cascade calculate_wind_logic, the window finder  *)
(* find_kite_window and the two views render_forecast / render_historicals.*)
(*                                                                         *)
(* Numbers.  The program computes in IEEE-754 binary64 (Python float,      *)
(* numpy float64) on the decimal numbers of the API.  A float is modelled  *)
(* as a sign, a binary exponent and a mantissa below 2^53 held in 4 limbs  *)
(* of 15 bits, least significant first: the value is mantissa * 2^exp.    *)
(* Every operation computes the exact result and rounds it to 53          *)
(* significant bits, ties to even, as the hardware does, with subnormals  *)
(* below 2^-1022, infinity from 2^1024 on and NaN.  Zero carries no sign  *)
(* (-0.0 equals 0.0 in every comparison the program makes).  Division is  *)
(* by a whole number below 2^15: the count of a mean and the power of ten *)
(* of a decimal literal.                                                  *)
(***************************************************************************)
EXTENDS Integers, Sequences, FiniteSets, TLC

VARIABLES
    row,     \* the hourly record handed to calculate_wind_logic
    pred,    \* the tuple it returned (lull, steady, gust, status), or None
    sq,      \* target-site API response, one record per hourly entry
    yvr,     \* reference-station API response, one record per hourly entry
    today,   \* pd.Timestamp.now().date(), as a day number
    df,      \* the frame a view works on (process_data + model columns)
    view,    \* what the view displayed
    pc       \* which operation has run

vars == <<row, pred, sq, yvr, today, df, view, pc>>

None == "None"

----------------------------------------------------------------------------
(* Natural numbers as sequences of limbs, least significant first *)

LimbBits == 60 \div 4
MantLimbs == 60 \div LimbBits
B == 2^LimbBits

\* The element of a one-element set.  {F(v) : v \in {e}} evaluates e once,
\* however often F uses v: intermediate results and the operands of the
\* float operations are taken this way, as Python evaluates an operand
\* before it applies the operator.
The(S) == CHOOSE r \in S : TRUE

Zeros(n) == [i \in 1..n |-> 0]

\* a on n limbs, n >= Len(a)
Pad(a, n) == a \o Zeros(n - Len(a))

RECURSIVE AddCarry(_, _, _, _)
AddCarry(a, b, i, c) ==
    IF i > Len(a) THEN <<>>
    ELSE The({<<s % B>> \o AddCarry(a, b, i + 1, s \div B) :
                 s \in {a[i] + b[i] + c}})

\* a + b on Len(a) = Len(b) limbs
NatAdd(a, b) == AddCarry(a, b, 1, 0)

RECURSIVE SubBorrow(_, _, _, _)
SubBorrow(a, b, i, c) ==
    IF i > Len(a) THEN <<>>
    ELSE The({IF s < 0 THEN <<s + B>> \o SubBorrow(a, b, i + 1, 1)
              ELSE <<s>> \o SubBorrow(a, b, i + 1, 0) :
                 s \in {a[i] - b[i] - c}})

\* a - b for a >= b
NatSub(a, b) == SubBorrow(a, b, 1, 0)

RECURSIVE CmpFrom(_, _, _)
CmpFrom(a, b, i) ==
    IF i = 0 THEN 0
    ELSE IF a[i] < b[i] THEN -1
    ELSE IF a[i] > b[i] THEN 1
    ELSE CmpFrom(a, b, i - 1)

\* -1, 0, 1 as a < b, a = b, a > b
NatCmp(a, b) == CmpFrom(a, b, Len(a))

IsZero(a) == \A i \in 1..Len(a) : a[i] = 0

\* Column k (weight B^k) of a product before carries: the low halves of the
\* limb products of weight k plus the high halves of those of weight k-1.
RECURSIVE ColSum(_, _, _, _)
ColSum(a, b, k, i) ==
    IF i > Len(a) THEN 0
    ELSE (IF k - i + 2 >= 1 /\ k - i + 2 <= Len(b)
          THEN (a[i] * b[k - i + 2]) % B ELSE 0)
         + (IF k - i + 1 >= 1 /\ k - i + 1 <= Len(b)
            THEN (a[i] * b[k - i + 1]) \div B ELSE 0)
         + ColSum(a, b, k, i + 1)

RECURSIVE Carry(_, _, _)
Carry(cols, i, c) ==
    IF i > Len(cols) THEN <<>>
    ELSE The({<<s % B>> \o Carry(cols, i + 1, s \div B) :
                 s \in {cols[i] + c}})

NatMul(a, b) ==
    The({Carry(cols, 1, 0) :
            cols \in {[k \in 1..(Len(a) + Len(b)) |-> ColSum(a, b, k - 1, 1)]}})

RECURSIVE DivFrom(_, _, _, _)
DivFrom(a, d, i, r) ==
    IF i = 0 THEN [q |-> <<>>, r |-> r]
    ELSE The({The({[q |-> rest.q \o <<cur \div d>>, r |-> rest.r] :
                      rest \in {DivFrom(a, d, i - 1, cur % d)}}) :
                 cur \in {r * B + a[i]}})

\* quotient and remainder of a by a whole number d, 0 < d < B
NatDivSmall(a, d) == DivFrom(a, d, Len(a), 0)

RECURSIVE TopLimb(_, _)
TopLimb(a, i) == IF i = 0 THEN 0 ELSE IF a[i] # 0 THEN i ELSE TopLimb(a, i - 1)

\* position of the highest set bit, -1 for zero
TopBit(a) ==
    LET t == TopLimb(a, Len(a))
    IN  IF t = 0 THEN -1
        ELSE (t - 1) * LimbBits
             + (CHOOSE k \in 0..(LimbBits - 1) : 2^k <= a[t] /\ a[t] < 2^(k + 1))

\* the limb of weight B^j, 0 outside a
LimbAt(a, j) == IF j >= 0 /\ j < Len(a) THEN a[j + 1] ELSE 0

\* bit k of a
Bit(a, k) == k >= 0 /\ (LimbAt(a, k \div LimbBits) \div 2^(k % LimbBits)) % 2 = 1

\* some bit below position k is set
AnyBelow(a, k) ==
    /\ k > 0
    /\ \/ LimbAt(a, k \div LimbBits) % 2^(k % LimbBits) # 0
       \/ \E i \in 1..Len(a) : i <= k \div LimbBits /\ a[i] # 0

\* a * 2^k on n limbs (the product fits), k >= 0
ShiftLeft(a, k, n) ==
    LET w == k \div LimbBits
        r == k % LimbBits
    IN  [i \in 1..n |->
            ((LimbAt(a, i - 1 - w) * 2^r) % B)
            + (LimbAt(a, i - 2 - w) \div 2^(LimbBits - r))]

\* a \div 2^k on n limbs (the quotient fits), k >= 0
ShiftRight(a, k, n) ==
    LET w == k \div LimbBits
        r == k % LimbBits
    IN  [i \in 1..n |->
            (LimbAt(a, i - 1 + w) \div 2^r)
            + ((LimbAt(a, i + w) % 2^r) * 2^(LimbBits - r))]

----------------------------------------------------------------------------
(* float64 *)

\* exponent of the subnormals and of zero: the unit is 2^-1074
MinExp == -(1022 + 52)

\* exponent that stands for infinity: finite values are below 2^1024
InfExp == 1024 - 52

Zero == [neg |-> FALSE, exp |-> MinExp, mag |-> Zeros(MantLimbs)]

Inf(neg) == [neg |-> neg, exp |-> InfExp, mag |-> Zeros(MantLimbs)]

\* float('nan')
NaN == [neg |-> FALSE, exp |-> 0, mag |-> <<>>]

IsNaN(x) == x.mag = <<>>

IsInf(x) == ~IsNaN(x) /\ x.exp = InfExp

IsZeroF(x) == ~IsNaN(x) /\ x.exp # InfExp /\ IsZero(x.mag)

\* The float nearest to (-1)^neg * (n + f) * 2^e, ties to even, where n is a
\* natural number in limbs and 0 < f < 1 iff sticky: 53 significant bits,
\* fewer below 2^-1022 (subnormals), infinity from 2^1024 on.
Pack(neg, n, e, sticky) ==
    The({The({
        IF t = -1 THEN Zero
        ELSE IF E >= InfExp THEN Inf(neg)
        ELSE IF E <= e
        THEN [neg |-> neg, exp |-> E, mag |-> ShiftLeft(v, e - E, MantLimbs)]
        ELSE The({
                 IF IsZero(m) THEN Zero
                 ELSE IF TopBit(m) = 53
                 THEN (IF E + 1 >= InfExp THEN Inf(neg)
                       ELSE [neg |-> neg, exp |-> E + 1,
                             mag |-> ShiftRight(m, 1, MantLimbs)])
                 ELSE [neg |-> neg, exp |-> E, mag |-> m] :
             m \in {IF Bit(v, E - e - 1)
                       /\ (AnyBelow(v, E - e - 1) \/ sticky \/ Bit(v, E - e))
                    THEN NatAdd(ShiftRight(v, E - e, MantLimbs),
                                Pad(<<1>>, MantLimbs))
                    ELSE ShiftRight(v, E - e, MantLimbs)}}) :
        t \in {TopBit(v)},
        E \in {IF e + TopBit(v) - 52 > MinExp THEN e + TopBit(v) - 52 ELSE MinExp}}) :
        v \in {n}})

\* -x (zero has no sign here: -0.0 == 0.0 in every comparison)
fneg(x) ==
    The({IF IsNaN(v) \/ IsZeroF(v) THEN v
         ELSE [neg |-> ~v.neg, exp |-> v.exp, mag |-> v.mag] : v \in {x}})

\* abs(x)
fabs(x) == The({IF IsNaN(v) THEN v
                ELSE [neg |-> FALSE, exp |-> v.exp, mag |-> v.mag] : v \in {x}})

\* -1, 0, 1 as |x| < |y|, |x| = |y|, |x| > |y|, neither NaN: a larger
\* exponent is a larger magnitude, since only the smallest exponent holds
\* mantissas below 2^52
MagCmp(x, y) ==
    IF x.exp < y.exp THEN -1
    ELSE IF x.exp > y.exp THEN 1
    ELSE NatCmp(x.mag, y.mag)

\* the sum of two finite floats hi, lo with hi.exp >= lo.exp
FiniteSum(hi, lo) ==
    LET d == hi.exp - lo.exp
    IN  IF d > 55 THEN hi    \* |lo| < ulp(hi) / 8
        ELSE The({IF hi.neg = lo.neg
                  THEN Pack(hi.neg, NatAdd(a, b), lo.exp, FALSE)
                  ELSE IF NatCmp(a, b) >= 0
                  THEN Pack(hi.neg, NatSub(a, b), lo.exp, FALSE)
                  ELSE Pack(lo.neg, NatSub(b, a), lo.exp, FALSE) :
                     a \in {ShiftLeft(hi.mag, d, 2 * MantLimbs)},
                     b \in {Pad(lo.mag, 2 * MantLimbs)}})

\* the sum of two evaluated floats
ExactSum(x, y) ==
    IF IsNaN(x) \/ IsNaN(y) THEN NaN
    ELSE IF IsInf(x) THEN (IF IsInf(y) /\ x.neg # y.neg THEN NaN ELSE x)
    ELSE IF IsInf(y) THEN y
    ELSE IF x.exp >= y.exp THEN FiniteSum(x, y)
    ELSE FiniteSum(y, x)

\* x + y
fadd(x, y) == The({ExactSum(p[1], p[2]) : p \in {<<x, y>>}})

\* x - y
fsub(x, y) == fadd(x, fneg(y))

\* the product of two evaluated floats
ExactProduct(x, y) ==
    IF IsNaN(x) \/ IsNaN(y) THEN NaN
    ELSE IF IsInf(x) \/ IsInf(y)
    THEN (IF IsZeroF(x) \/ IsZeroF(y) THEN NaN ELSE Inf(x.neg # y.neg))
    ELSE The({Pack(x.neg # y.neg, e, x.exp + y.exp, FALSE) :
                 e \in {NatMul(x.mag, y.mag)}})

\* x * y
fmul(x, y) == The({ExactProduct(p[1], p[2]) : p \in {<<x, y>>}})

\* x / d for a whole number d, 0 < d < 2^15
fdiv(x, d) ==
    The({IF IsNaN(v) \/ IsInf(v) THEN v
         ELSE The({Pack(v.neg, qr.q, v.exp - 2 * LimbBits, qr.r # 0) :
                      qr \in {NatDivSmall(Zeros(2) \o v.mag, d)}}) :
            v \in {x}})

\* the whole number n as a float, |n| < 2^30
Whole(n) ==
    The({Pack(n < 0, <<a % B, a \div B>>, 0, FALSE) :
            a \in {IF n < 0 THEN -n ELSE n}})

\* the decimal literal n/d (1.35 is Dec(135, 100)): the nearest float
Dec(n, d) == fdiv(Whole(n), d)

\* x < y on evaluated floats; every comparison with NaN is false
Less(x, y) ==
    IF IsNaN(x) \/ IsNaN(y) THEN FALSE
    ELSE IF x.neg # y.neg THEN x.neg
    ELSE IF x.neg THEN MagCmp(x, y) > 0
    ELSE MagCmp(x, y) < 0

\* x < y
flt(x, y) == The({Less(p[1], p[2]) : p \in {<<x, y>>}})

\* x > y
fgt(x, y) == flt(y, x)

\* x >= y
fge(x, y) ==
    The({~IsNaN(p[1]) /\ ~IsNaN(p[2]) /\ ~Less(p[1], p[2]) : p \in {<<x, y>>}})

\* x <= y
fle(x, y) == fge(y, x)

\* max(a, b) of Python: b only if b > a
Max2(a, b) == The({IF Less(p[1], p[2]) THEN p[2] ELSE p[1] : p \in {<<a, b>>}})

----------------------------------------------------------------------------
(* Configuration and the literals of the rule cascade *)

KITE_THRESHOLD == 15
MIN_DURATION == 2

STORM == "DANGER: STORM"
HEAT == "Heat Bubble"
EXCELLENT == "Excellent"
GOOD == "Good"
LIGHT == "Light"
RAINRISK == "Rain Risk"

StormRain == Dec(20, 10)
StormPressure == Whole(1008)
HeatTemp == Dec(310, 10)
ExcellentGradient == Dec(40, 10)
GoodGradient == Dec(25, 10)
ExcellentSlope == Dec(25, 10)
GustFactor == Dec(135, 100)
LullFactor == Dec(7, 10)
DampRain == Dec(5, 10)
DampSteady == Dec(6, 10)
DampGust == Dec(8, 10)

StormResult ==
    [lull |-> Whole(0), steady |-> Whole(0), gust |-> Whole(45), status |-> STORM]

HeatResult ==
    [lull |-> Whole(5), steady |-> Whole(8), gust |-> Whole(12), status |-> HEAT]

----------------------------------------------------------------------------
(* 2. Prediction engine *)

\* 3. Thermal model: steady and status from the gradient
thermal_model(r) ==
    IF fge(r.gradient, ExcellentGradient)
    THEN [steady |-> fadd(Whole(22),
                          fmul(fsub(r.gradient, Whole(4)), ExcellentSlope)),
          status |-> EXCELLENT]
    ELSE IF fge(r.gradient, GoodGradient)
    THEN [steady |-> fadd(Whole(16),
                          fmul(fsub(r.gradient, GoodGradient), Whole(2))),
          status |-> GOOD]
    ELSE [steady |-> r.wind_base, status |-> LIGHT]

\* 4. Gusts and lulls of the thermal result t
gusts_and_lulls(r, t) ==
    [gust |-> Max2(fmul(t.steady, GustFactor), r.wind_gust_api),
     lull |-> fmul(t.steady, LullFactor)]

\* Rain dampener on the thermal result t with its gust and lull gl
rain_dampener(r, t, gl) ==
    IF fgt(r.rain, DampRain) /\ t.status # LIGHT
    THEN [lull |-> gl.lull, steady |-> fmul(t.steady, DampSteady),
          gust |-> fmul(gl.gust, DampGust), status |-> RAINRISK]
    ELSE [lull |-> gl.lull, steady |-> t.steady, gust |-> gl.gust,
          status |-> t.status]

StormRule(r) == fgt(r.rain, StormRain) /\ flt(r.pressure_sq, StormPressure)

HeatRule(r) == fgt(r.temp_sq, HeatTemp)

\* Mutant: the heat-bubble gate is tested before the storm gate.
calculate_wind_logic_heat_first(r) ==
    IF HeatRule(r) THEN HeatResult
    ELSE IF StormRule(r) THEN StormResult
    ELSE LET t == thermal_model(r)
         IN  rain_dampener(r, t, gusts_and_lulls(r, t))

\* Mutant: the rain dampener is applied to the heat-bubble result as well.
calculate_wind_logic_damp_heat(r) ==
    IF StormRule(r) THEN StormResult
    ELSE IF HeatRule(r)
    THEN rain_dampener(r, HeatResult, HeatResult)
    ELSE LET t == thermal_model(r)
         IN  rain_dampener(r, t, gusts_and_lulls(r, t))

\* Mutant: the rain dampener forgets the status != "Light" condition.
calculate_wind_logic_damp_light(r) ==
    IF StormRule(r) THEN StormResult
    ELSE IF HeatRule(r) THEN HeatResult
    ELSE LET t == thermal_model(r)
             gl == gusts_and_lulls(r, t)
         IN  IF fgt(r.rain, DampRain)
             THEN [lull |-> gl.lull, steady |-> fmul(t.steady, DampSteady),
                   gust |-> fmul(gl.gust, DampGust), status |-> RAINRISK]
             ELSE [lull |-> gl.lull, steady |-> t.steady, gust |-> gl.gust,
                   status |-> t.status]

\* calculate_wind_logic(row): 1. storm check, 2. heat bubble, 3. thermal
\* model, 4. gusts and lulls, rain dampener; the first return wins.
calculate_wind_logic(r) ==
    IF StormRule(r) THEN StormResult
    ELSE IF HeatRule(r) THEN HeatResult
    ELSE LET t == thermal_model(r)
         IN  rain_dampener(r, t, gusts_and_lulls(r, t))

----------------------------------------------------------------------------
(* Inputs of the per-record specification.  Rain in steps of 0.5 mm; site  *)
(* pressure 1007.9, 1008.0, ... hPa and temperature 30.9, 31.0, ... degC   *)
(* in the API's 0.1 steps; the gradient is the float difference of a       *)
(* reference pressure 0, 0.5, 1.0, ... hPa above the site pressure; base   *)
(* wind in steps of 5.2 kn, reported gust in steps of 10 kn.               *)

MaxRainStep == 5
MaxPressureStep == 2
MaxTempStep == 2
MaxGradientStep == 10
MaxWindStep == 4
MaxGustStep == 4

RainVals == {Dec(5 * i, 10) : i \in 0..MaxRainStep}
TempVals == {Dec(309 + i, 10) : i \in 0..MaxTempStep}
WindVals == {Dec(52 * i, 10) : i \in 0..MaxWindStep}
GustVals == {Whole(10 * i) : i \in 0..MaxGustStep}

\* site pressures in tenths of hPa: around the storm limit 1008, and 1021.6,
\* from which the differences to references above 1024 are inexact
PressureTenths == {10079 + i : i \in 0..MaxPressureStep} \cup {10216}

\* site pressure and gradient = reference pressure - site pressure (line 55)
PressureGradientVals ==
    {[pressure_sq |-> Dec(p, 10),
      gradient |-> fsub(Dec(p + 5 * j, 10), Dec(p, 10))] :
        p \in PressureTenths, j \in 0..MaxGradientStep}

Rows ==
    {[rain |-> rn, pressure_sq |-> pg.pressure_sq, temp_sq |-> tp,
      gradient |-> pg.gradient, wind_base |-> wb, wind_gust_api |-> gu] :
        rn \in RainVals, pg \in PressureGradientVals, tp \in TempVals,
        wb \in WindVals, gu \in GustVals}

NoRow ==
    [rain |-> Whole(0), pressure_sq |-> Whole(0), temp_sq |-> Whole(0),
     gradient |-> Whole(0), wind_base |-> Whole(0), wind_gust_api |-> Whole(0)]

InitLogic ==
    /\ row \in Rows
    /\ pred = None
    /\ sq = <<>>
    /\ yvr = <<>>
    /\ today = 0
    /\ df = <<>>
    /\ view = None
    /\ pc = "ready"

\* One application of calculate_wind_logic to the record.
Predict ==
    /\ pc = "ready"
    /\ pred' = calculate_wind_logic(row)
    /\ pc' = "predicted"
    /\ UNCHANGED <<row, sq, yvr, today, df, view>>

NextLogic == Predict

SpecLogic == InitLogic /\ [][NextLogic]_vars

----------------------------------------------------------------------------
(* 1. Data: process_data *)

\* A timestamp of the API ("YYYY-MM-DDTHH:00") is modelled as the number of
\* hours since 00:00 of day 0; pd.to_datetime splits it into date and hour.
to_datetime(t) == [date |-> t \div 24, hour |-> t % 24]

\* date.strftime('%A'), days being counted from a Monday
Weekday(d) ==
    <<"Monday", "Tuesday", "Wednesday", "Thursday", "Friday", "Saturday",
      "Sunday">>[(d % 7) + 1]

\* process_data(sq, yvr): pd.DataFrame raises on columns of different
\* lengths (caught: st.error, empty frame); otherwise the columns are put
\* side by side by position.  yvr's 'time' column is never read.  Nothing
\* is validated: a null entry stays in its column as NaN, and so does the
\* gradient computed from it.
process_data(s, y) ==
    IF Len(s) # Len(y)
    THEN [error |-> TRUE, frame |-> <<>>]
    ELSE [error |-> FALSE,
          frame |-> [i \in 1..Len(s) |->
              [time |-> s[i].time,
               temp_sq |-> s[i].temperature_2m,
               pressure_sq |-> s[i].pressure_msl,
               rain |-> s[i].precipitation,
               wind_base |-> s[i].windspeed_10m,
               wind_gust_api |-> s[i].windgusts_10m,
               pressure_yvr |-> y[i].pressure_msl,
               gradient |-> fsub(y[i].pressure_msl, s[i].pressure_msl),
               datetime |-> to_datetime(s[i].time)]]]

\* df[['lull','steady','gust','status']] = df.apply(calculate_wind_logic)
apply_logic(frame) ==
    [i \in 1..Len(frame) |->
        LET r == frame[i]
            p == calculate_wind_logic(r)
        IN  [time |-> r.time, temp_sq |-> r.temp_sq,
             pressure_sq |-> r.pressure_sq, rain |-> r.rain,
             wind_base |-> r.wind_base, wind_gust_api |-> r.wind_gust_api,
             pressure_yvr |-> r.pressure_yvr, gradient |-> r.gradient,
             datetime |-> r.datetime,
             lull |-> p.lull, steady |-> p.steady, gust |-> p.gust,
             status |-> p.status]]

\* datetime.dt.hour.between(10, 21)
KiteHour(r) == r.datetime.hour >= 10 /\ r.datetime.hour <= 21

----------------------------------------------------------------------------
(* 3. Helper: find windows *)

Digit(n) == <<"0", "1", "2", "3", "4", "5", "6", "7", "8", "9">>[n + 1]

\* datetime.strftime("%I %p"), as a sequence of characters
strftime_I_p(dt) ==
    LET h12 == IF dt.hour % 12 = 0 THEN 12 ELSE dt.hour % 12
    IN  <<Digit(h12 \div 10), Digit(h12 % 10), " ",
          IF dt.hour < 12 THEN "A" ELSE "P", "M">>

\* str.lstrip("0")
RECURSIVE lstrip0(_)
lstrip0(str) ==
    IF str # <<>> /\ Head(str) = "0" THEN lstrip0(Tail(str)) ELSE str

\* day_df['steady'] >= KITE_THRESHOLD
Windy(r) == fge(r.steady, Whole(KITE_THRESHOLD))

\* Mutant: a day needs more than MIN_DURATION windy hours.
find_kite_window_strict(day_df) ==
    LET windy_hours == SelectSeq(day_df, Windy)
    IN  IF Len(windy_hours) <= MIN_DURATION
        THEN [start |-> None, end |-> None, window |-> <<"No Solid Session">>]
        ELSE LET start == lstrip0(strftime_I_p(windy_hours[1].datetime))
                 end == lstrip0(strftime_I_p(windy_hours[Len(windy_hours)].datetime))
             IN  [start |-> start, end |-> end,
                  window |-> start \o <<" - ">> \o end]

\* The last row of the first unbroken run of windy hours.
RECURSIVE RunEnd(_, _)
RunEnd(w, i) ==
    IF i < Len(w) /\ w[i + 1].time = w[i].time + 1 THEN RunEnd(w, i + 1) ELSE i

\* Mutant: the window ends where the first contiguous run ends.
find_kite_window_contiguous(day_df) ==
    LET windy_hours == SelectSeq(day_df, Windy)
    IN  IF Len(windy_hours) < MIN_DURATION
        THEN [start |-> None, end |-> None, window |-> <<"No Solid Session">>]
        ELSE LET start == lstrip0(strftime_I_p(windy_hours[1].datetime))
                 end == lstrip0(strftime_I_p(
                            windy_hours[RunEnd(windy_hours, 1)].datetime))
             IN  [start |-> start, end |-> end,
                  window |-> start \o <<" - ">> \o end]

\* find_kite_window(day_df)
find_kite_window(day_df) ==
    LET windy_hours == SelectSeq(day_df, Windy)
    IN  IF Len(windy_hours) < MIN_DURATION
        THEN [start |-> None, end |-> None, window |-> <<"No Solid Session">>]
        ELSE LET start == lstrip0(strftime_I_p(windy_hours[1].datetime))
                 end == lstrip0(strftime_I_p(windy_hours[Len(windy_hours)].datetime))
             IN  [start |-> start, end |-> end,
                  window |-> start \o <<" - ">> \o end]

----------------------------------------------------------------------------
(* 4. Forecast tab *)

\* df['day_date'].unique(): the dates in order of first appearance
RECURSIVE unique_dates(_, _)
unique_dates(frame, seen) ==
    IF frame = <<>> THEN <<>>
    ELSE LET d == Head(frame).datetime.date
         IN  IF d \in seen THEN unique_dates(Tail(frame), seen)
             ELSE <<d>> \o unique_dates(Tail(frame), seen \cup {d})

\* days[:7]
first7(days) == SubSeq(days, 1, IF Len(days) < 7 THEN Len(days) ELSE 7)

Statuses(day_df) == {day_df[i].status : i \in 1..Len(day_df)}

\* The header of one day: icon "sleep" / "storm" / "surf" stand for the
\* three emoji, title for the text after the weekday.
\* '"DANGER" in day_df["status"].values' is membership in a numpy array:
\* true iff some element EQUALS "DANGER".
day_header(day, day_df) ==
    LET w == find_kite_window(day_df)
        head == IF "DANGER" \in Statuses(day_df)
                THEN [icon |-> "storm", title |-> <<"STORM">>]
                ELSE IF w.start # None
                THEN [icon |-> "surf", title |-> w.window]
                ELSE [icon |-> "sleep", title |-> <<"No Wind">>]
    IN  [day |-> day, weekday |-> Weekday(day), icon |-> head.icon,
         title |-> head.title, start |-> w.start, end |-> w.end,
         window |-> w.window]

\* The loop of render_forecast over days[:7]: one expander per day that is
\* not in the past and has rows in the 10-21 range.
RECURSIVE expanders(_, _, _)
expanders(days, frame, now) ==
    IF days = <<>> THEN <<>>
    ELSE LET day == Head(days)
             InDay(r) == r.datetime.date = day /\ KiteHour(r)
             day_df == SelectSeq(frame, InDay)
         IN  IF day < now \/ day_df = <<>>
             THEN expanders(Tail(days), frame, now)
             ELSE <<day_header(day, day_df)>> \o expanders(Tail(days), frame, now)

----------------------------------------------------------------------------
(* 5. Historicals tab *)

\* df['error'] = df['steady'] - df['wind_base'], on the columns the review uses
with_error(frame) ==
    [i \in 1..Len(frame) |->
        [datetime |-> frame[i].datetime, status |-> frame[i].status,
         steady |-> frame[i].steady, wind_base |-> frame[i].wind_base,
         wind_gust_api |-> frame[i].wind_gust_api,
         error |-> fsub(frame[i].steady, frame[i].wind_base)]]

\* res += a[i] for i = from .. to (1-based)
RECURSIVE AddUp(_, _, _, _)
AddUp(a, from, to, res) ==
    IF from > to THEN res ELSE AddUp(a, from + 1, to, fadd(res, a[from]))

\* r[j] += a[i + j] for i = 8, 16, ... below the last full block of 8
RECURSIVE Lane(_, _, _, _, _)
Lane(a, j, i, last, r) ==
    IF i >= last THEN r ELSE Lane(a, j, i + 8, last, fadd(r, a[i + j + 1]))

\* The summation order of numpy's add.reduce on a contiguous float64 array
\* (pairwise_sum): a plain loop below 8 elements, 8 interleaved partial sums
\* up to 128 elements, two halves above.
RECURSIVE pairwise_sum(_)
pairwise_sum(a) ==
    LET n == Len(a)
    IN  IF n < 8 THEN AddUp(a, 1, n, Whole(0))
        ELSE IF n <= 128
        THEN LET last == n - (n % 8)
                 r == [j \in 0..7 |-> Lane(a, j, 8, last, a[j + 1])]
                 res == fadd(fadd(fadd(r[0], r[1]), fadd(r[2], r[3])),
                             fadd(fadd(r[4], r[5]), fadd(r[6], r[7])))
             IN  AddUp(a, last + 1, n, res)
        ELSE LET half == n \div 2
                 n2 == half - (half % 8)
             IN  fadd(pairwise_sum(SubSeq(a, 1, n2)),
                      pairwise_sum(SubSeq(a, n2 + 1, n)))

\* The values of a float column with 0.0 in the place of every NaN
fill_zero(a) == [i \in 1..Len(a) |-> IF IsNaN(a[i]) THEN Zero ELSE a[i]]

\* The number of entries of a float column that are not NaN
count_valid(a) == Cardinality({i \in 1..Len(a) : ~IsNaN(a[i])})

\* df['error'].abs().mean(): Series.mean skips NaN (skipna=True).  The sum
\* runs over the whole column with 0.0 for each NaN and is divided by the
\* number of entries that are not NaN; the mean is NaN when there is none.
mean_abs_error(frame) ==
    The({The({IF n = 0 THEN NaN ELSE fdiv(pairwise_sum(fill_zero(a)), n) :
                 n \in {count_valid(a)}}) :
            a \in {[i \in 1..Len(frame) |-> fabs(frame[i].error)]}})

\* mae < 5
accurate(mae) == flt(mae, Whole(5))

----------------------------------------------------------------------------
(* Inputs of the one-day specification: a full day of 24 aligned hourly   *)
(* entries on date 1.  On a complete day the hours 12..12+RunSpan and 17  *)
(* take any of the six complete profiles below, the hours 9 and 22        *)
(* outside the kiteable range are both still or both thermal, every other *)
(* hour is still.  On a day with gaps the archive has nulls: those hours  *)
(* are still, lack the wind speed, lack every value, or are complete with *)
(* a residual (Drift), and the other hours of the range are all still or  *)
(* all lack the wind speed.  The hours before 10:00 and after 21:00 are   *)
(* complete, so that every column holds a number and is a float64 column. *)

RunSpan == 2

VarHours == (12..(12 + RunSpan)) \cup {17}
EdgeHours == {9, 22}

\* all six numbers in tenths, as the API delivers them
Profile(temp, p_sq, rain, base, gustv, p_yvr) ==
    [temperature_2m |-> Dec(temp, 10), pressure_msl |-> Dec(p_sq, 10),
     precipitation |-> Dec(rain, 10), windspeed_10m |-> Dec(base, 10),
     windgusts_10m |-> Dec(gustv, 10), ref_pressure |-> Dec(p_yvr, 10)]

\* 1024.1 - 1021.6 = 2.4999999999998863: Light, steady 7
Still   == Profile(200, 10216,  0,  70, 100, 10241)
\* gradient 0: Light, steady 20
Breezy  == Profile(200, 10100,  0, 200, 250, 10100)
\* gradient 6: Excellent, steady 27
Thermal == Profile(200, 10100,  0,  70, 100, 10160)
\* rain 3.0 at 1005 hPa: storm
Stormy  == Profile(200, 10050, 30,  70, 400, 10050)
\* 1015.3 - 1010.1 = 5.199999999999932 with rain 1.0: Rain Risk,
\* steady 14.999999999999897
Damp    == Profile(200, 10101, 10,  70, 100, 10153)

\* 1002.6 - 1000.0 = 2.6000000000000227: Good, steady 16.200000000000045
\* against an observed 16.2, a residual of 4.618527782440651e-14
Drift   == Profile(200, 10000,  0, 162, 200, 10026)

\* A null of the API's JSON: None in the list, NaN in the float64 column
\* pd.DataFrame builds of a list that also holds numbers.
Null == NaN

\* a still hour whose wind speed the archive does not have
Gap == [Still EXCEPT !.windspeed_10m = Null]
\* an hour of which the archive has nothing yet, at either station
Blank ==
    [temperature_2m |-> Null, pressure_msl |-> Null, precipitation |-> Null,
     windspeed_10m |-> Null, windgusts_10m |-> Null, ref_pressure |-> Null]

DayProfiles == {Still, Breezy, Thermal, Stormy, Damp, Drift}
EdgeProfiles == {Still, Thermal}
GapProfiles == {Still, Gap, Blank, Drift}
RestProfiles == {Still, Gap}

\* choice: the profiles of the hours 12..12+RunSpan and 17; edge: of the
\* hours 9 and 22; rest: of the other hours of the 10-21 range
Days ==
    {[choice |-> c, edge |-> e, rest |-> Still] :
        c \in [VarHours -> DayProfiles], e \in EdgeProfiles}
    \cup {[choice |-> c, edge |-> Still, rest |-> r] :
             c \in [VarHours -> GapProfiles], r \in RestProfiles}

DayTime(h) == 24 + h

SiteEntry(t, pr) ==
    [time |-> t, temperature_2m |-> pr.temperature_2m,
     pressure_msl |-> pr.pressure_msl, precipitation |-> pr.precipitation,
     windspeed_10m |-> pr.windspeed_10m, windgusts_10m |-> pr.windgusts_10m]

RefEntry(t, p) == [time |-> t, pressure_msl |-> p]

ProfileAt(day, h) ==
    IF h \in VarHours THEN day.choice[h]
    ELSE IF h \in EdgeHours THEN day.edge
    ELSE IF h \in 10..21 THEN day.rest
    ELSE Still

InitDay ==
    /\ \E day \in Days :
          /\ sq = [i \in 1..24 |->
                      SiteEntry(DayTime(i - 1), ProfileAt(day, i - 1))]
          /\ yvr = [i \in 1..24 |->
                       RefEntry(DayTime(i - 1),
                                ProfileAt(day, i - 1).ref_pressure)]
    /\ row = NoRow
    /\ pred = None
    /\ today = 0
    /\ df = <<>>
    /\ view = None
    /\ pc = "ready"

\* render_forecast(): fetch, process_data, model columns, one header per day.
RenderForecast ==
    /\ pc = "ready"
    /\ \E p \in {process_data(sq, yvr)} :
       \E frame \in {apply_logic(p.frame)} :
       \E days \in {first7(unique_dates(frame, {}))} :
       \E now \in 1..2 :
          /\ today' = now
          /\ df' = frame
          /\ view' = [error |-> p.error,
                      expanders |-> expanders(days, frame, now)]
    /\ pc' = "forecast"
    /\ UNCHANGED <<row, pred, sq, yvr>>

\* render_historicals() with the button pressed: fetch, process_data, model
\* columns, 10-21 filter, error column, MAE and verdict.
RenderHistoricals ==
    /\ pc = "ready"
    /\ \E p \in {process_data(sq, yvr)} :
          IF p.frame = <<>>
          THEN /\ df' = <<>>
               /\ view' = [error |-> p.error, mae |-> None,
                           verdict_color |-> None, verdict_text |-> None]
          ELSE \E kite \in {SelectSeq(apply_logic(p.frame), KiteHour)} :
               \E frame \in {with_error(kite)} :
               \E mae \in {mean_abs_error(frame)} :
               \E ok \in {accurate(mae)} :
                  /\ df' = frame
                  /\ view' = [error |-> p.error, mae |-> mae,
                              verdict_color |-> IF ok THEN "green" ELSE "red",
                              verdict_text |-> IF ok THEN "Accurate Logic"
                                               ELSE "Model Missed"]
    /\ pc' = "historicals"
    /\ UNCHANGED <<row, pred, sq, yvr, today>>

NextDay == RenderForecast \/ RenderHistoricals

SpecDay == InitDay /\ [][NextDay]_vars

----------------------------------------------------------------------------
(* Inputs of the normaliser specification: each station answers with any  *)
(* ascending series over a subset of the hours 10..10+MaxSeriesSpan of    *)
(* date 1, with any of the pressures 1010.1, 1013.1, ...                  *)

MaxSeriesSpan == 2
MaxPressureChoice == 1

SeriesTimes == {DayTime(10 + i) : i \in 0..MaxSeriesSpan}
SeriesPressures == {Dec(10101 + 30 * i, 10) : i \in 0..MaxPressureChoice}

\* the elements of a set of integers in ascending order
RECURSIVE Ascending(_)
Ascending(S) ==
    IF S = {} THEN <<>>
    ELSE LET m == CHOOSE x \in S : \A y \in S : x <= y
         IN  <<m>> \o Ascending(S \ {m})

InitData ==
    /\ \E Ts \in SUBSET SeriesTimes : \E ps \in [Ts -> SeriesPressures] :
          sq = [i \in 1..Cardinality(Ts) |->
                   LET t == Ascending(Ts)[i]
                   IN  [time |-> t, temperature_2m |-> Whole(20),
                        pressure_msl |-> ps[t], precipitation |-> Whole(0),
                        windspeed_10m |-> Whole(7), windgusts_10m |-> Whole(10)]]
    /\ \E Ty \in SUBSET SeriesTimes : \E py \in [Ty -> SeriesPressures] :
          yvr = [i \in 1..Cardinality(Ty) |->
                    LET t == Ascending(Ty)[i] IN RefEntry(t, py[t])]
    /\ row = NoRow
    /\ pred = None
    /\ today = 0
    /\ df = <<>>
    /\ view = None
    /\ pc = "ready"

\* get_forecast_data / get_historical_data handing the two responses to
\* process_data: the frame, or st.error and an empty frame.
ProcessData ==
    /\ pc = "ready"
    /\ \E p \in {process_data(sq, yvr)} :
          /\ df' = p.frame
          /\ view' = IF p.error THEN "Error processing data" ELSE None
    /\ pc' = "processed"
    /\ UNCHANGED <<row, pred, sq, yvr, today>>

NextData == ProcessData

SpecData == InitData /\ [][NextData]_vars

----------------------------------------------------------------------------
(* Properties of the prediction engine (checked under SpecLogic) *)

Predicted == pc = "predicted"

StormCondition == fgt(row.rain, Whole(2)) /\ flt(row.pressure_sq, Whole(1008))

\* The steady speed the gradient alone calls for (spec 4.2 rule 3).
ThermalSteadyOf(r) ==
    CASE fge(r.gradient, Whole(4)) ->
             fadd(Whole(22), fmul(fsub(r.gradient, Whole(4)), Dec(25, 10)))
      [] fge(r.gradient, Dec(25, 10)) /\ flt(r.gradient, Whole(4)) ->
             fadd(Whole(16), fmul(fsub(r.gradient, Dec(25, 10)), Whole(2)))
      [] OTHER -> r.wind_base

\* C1: every prediction satisfies 0 <= lull <= steady <= gust, including the
\* hours where the rain dampener is applied.
C1_Ordering ==
    Predicted => (fle(Whole(0), pred.lull) /\ fle(pred.lull, pred.steady)
                  /\ fle(pred.steady, pred.gust))

\* C2: storm precedence -- rain > 2.0 and site pressure < 1008 give
\* lull 0, steady 0, gust 45 and the storm status, whatever the other fields.
C2_StormPrecedence ==
    (Predicted /\ StormCondition) =>
        (pred.lull = Whole(0) /\ pred.steady = Whole(0)
         /\ pred.gust = Whole(45) /\ pred.status = "DANGER: STORM")

\* C2 witness: a storm hour that is also hotter than 31.0 was predicted.
C2_Witness ==
    Predicted /\ StormCondition /\ fgt(row.temp_sq, Whole(31))
    /\ fge(row.gradient, Whole(4)) /\ pred.status = "DANGER: STORM"

\* C7: heat-bubble precedence -- temperature > 31.0 without the storm
\* condition gives lull 5, steady 8, gust 12 and the heat-bubble status,
\* whatever gradient, base wind, reported gust and rain are.
C7_HeatPrecedence ==
    (Predicted /\ fgt(row.temp_sq, Whole(31)) /\ ~StormCondition) =>
        (pred.lull = Whole(5) /\ pred.steady = Whole(8)
         /\ pred.gust = Whole(12) /\ pred.status = "Heat Bubble")

\* C7 witness: a hot, rainy hour with a strong gradient and a reported gust
\* above 12 kn came out as the undampened heat bubble.
C7_Witness ==
    Predicted /\ fgt(row.temp_sq, Whole(31)) /\ ~StormCondition
    /\ fgt(row.rain, Dec(5, 10)) /\ fge(row.gradient, Dec(25, 10))
    /\ fgt(row.wind_gust_api, Whole(12)) /\ pred.steady = Whole(8)

\* C9: past the storm and heat gates, the hour is Rain Risk with steady x0.6
\* and gust x0.8 exactly when rain > 0.5 and gradient >= 2.5; with
\* gradient < 2.5 it stays Light with steady = base wind for every rain.
C9_RainDampenerScope ==
    (Predicted /\ ~StormCondition /\ fle(row.temp_sq, Whole(31))) =>
        LET t == ThermalSteadyOf(row)
            g135 == fmul(t, Dec(135, 100))
            g == IF fge(g135, row.wind_gust_api) THEN g135 ELSE row.wind_gust_api
            damp == fgt(row.rain, Dec(5, 10)) /\ fge(row.gradient, Dec(25, 10))
        IN  /\ damp => /\ pred.status = "Rain Risk"
                       /\ pred.steady = fmul(t, Dec(6, 10))
                       /\ pred.gust = fmul(g, Dec(8, 10))
            /\ ~damp => /\ pred.status \in {"Light", "Good", "Excellent"}
                        /\ pred.steady = t
                        /\ pred.gust = g
            /\ flt(row.gradient, Dec(25, 10)) =>
                   (pred.status = "Light" /\ pred.steady = row.wind_base)

\* C9 witness: a rainy hour with gradient < 2.5 stayed Light, and ...
C9_Witness ==
    Predicted /\ ~StormCondition /\ fle(row.temp_sq, Whole(31))
    /\ fgt(row.rain, Dec(5, 10)) /\ flt(row.gradient, Dec(25, 10))
    /\ fgt(row.wind_base, Whole(0)) /\ pred.status = "Light"

\* ... a rainy hour with gradient >= 2.5 was dampened.
C9_WitnessDamped ==
    Predicted /\ ~StormCondition /\ fle(row.temp_sq, Whole(31))
    /\ fgt(row.rain, Dec(5, 10)) /\ fge(row.gradient, Dec(25, 10))
    /\ pred.status = "Rain Risk"

\* Rounding at the thresholds: a reference pressure exactly 2.5 hPa above
\* the site pressure in decimals whose float difference is below 2.5.
RoundedBelowGood ==
    Predicted /\ row.pressure_sq = Dec(10216, 10)
    /\ row.gradient = fsub(Dec(10241, 10), Dec(10216, 10))
    /\ flt(row.gradient, Dec(25, 10))
    /\ fle(row.temp_sq, Whole(31)) /\ pred.status = "Light"

----------------------------------------------------------------------------
(* Properties of the views (checked under SpecDay) *)

Shown == IF pc = "forecast" THEN {view.expanders[i] : i \in 1..Len(view.expanders)}
         ELSE {}

\* The rows of the forecast frame of one day in the 10:00-21:00 range.
KiteRows(day) ==
    {i \in 1..Len(df) : df[i].datetime.date = day
                        /\ df[i].datetime.hour \in 10..21}

\* The hours of the day in that range whose steady reaches the threshold.
Qualifying(day) ==
    {df[i].datetime.hour :
        i \in {j \in KiteRows(day) : fge(df[j].steady, Whole(15))}}

MinOf(S) == CHOOSE x \in S : \A y \in S : x <= y
MaxOf(S) == CHOOSE x \in S : \A y \in S : x >= y

\* An hour on the 12-hour clock without leading zero: "9 AM", "12 PM", "5 PM".
ClockLabel(h) ==
    LET h12 == ((h + 11) % 12) + 1
    IN  (IF h12 >= 10 THEN <<"1", Digit(h12 - 10)>> ELSE <<Digit(h12)>>)
        \o <<" ", IF h < 12 THEN "A" ELSE "P", "M">>

ClockLabels == {ClockLabel(h) : h \in 0..23}

\* C3: a displayed day carries the storm header if and only if one of its
\* hours in the 10:00-21:00 range has the storm status.
C3_StormFlag ==
    \A e \in Shown :
        (e.icon = "storm") <=>
            (\E i \in KiteRows(e.day) : df[i].status = "DANGER: STORM")

\* C5: fewer than 2 qualifying hours give no start, no end and the label
\* 'No Solid Session'; 2 or more give a start and an end hour.
C5_NoSession ==
    \A e \in Shown :
        LET n == Cardinality(Qualifying(e.day))
        IN  /\ n < 2 => (e.start = None /\ e.end = None
                         /\ e.window = <<"No Solid Session">>)
            /\ n >= 2 => (/\ e.start # None
                          /\ e.end # None
                          /\ e.start \in ClockLabels
                          /\ e.end \in ClockLabels)

\* C5 witness: a displayed day with exactly one qualifying hour in range (and
\* a windy hour outside the range) has no session.
C5_Witness ==
    \E e \in Shown :
        /\ Cardinality(Qualifying(e.day)) = 1
        /\ \E i \in 1..Len(df) :
               df[i].datetime.hour = 22 /\ fge(df[i].steady, Whole(15))
        /\ e.start = None

\* C6: with at least 2 qualifying hours the window runs from the earliest to
\* the latest qualifying hour, whatever lies between them.
C6_FirstToLast ==
    \A e \in Shown :
        LET Q == Qualifying(e.day)
        IN  Cardinality(Q) >= 2 =>
                /\ e.start = ClockLabel(MinOf(Q))
                /\ e.end = ClockLabel(MaxOf(Q))
                /\ \E s \in Q, t \in Q :
                       s <= t /\ e.start = ClockLabel(s) /\ e.end = ClockLabel(t)

\* C6 witness: qualifying hours {12,13,14,17} are shown as 12 PM - 5 PM.
C6_Witness ==
    \E e \in Shown :
        /\ Qualifying(e.day) = {12, 13, 14, 17}
        /\ e.start = <<"1", "2", " ", "P", "M">>
        /\ e.end = <<"5", " ", "P", "M">>

\* The review's inputs, read from the two responses: the entries of the
\* 10:00-21:00 range in their order, the steady the engine predicts for an
\* entry, and the base speed observed.
ReviewHours == {i \in 1..Len(sq) : (sq[i].time % 24) \in 10..21}

ObservedBase(i) == sq[i].windspeed_10m

PredictedSteady(i) ==
    calculate_wind_logic(
        [rain |-> sq[i].precipitation, pressure_sq |-> sq[i].pressure_msl,
         temp_sq |-> sq[i].temperature_2m,
         gradient |-> fsub(yvr[i].pressure_msl, sq[i].pressure_msl),
         wind_base |-> sq[i].windspeed_10m,
         wind_gust_api |-> sq[i].windgusts_10m]).steady

\* |predicted steady - observed base speed| of the hours in range, in order
Residuals ==
    LET idx == Ascending(ReviewHours)
    IN  [k \in 1..Len(idx) |->
            fabs(fsub(PredictedSteady(idx[k]), ObservedBase(idx[k])))]

\* C8: MAE is the mean of |predicted steady - observed base| over the hours
\* in range, the verdict is 'accurate' exactly when MAE < 5, and equal
\* predictions and observations give MAE 0 and 'accurate'.
C8_AccuracyVerdict ==
    pc = "historicals" =>
        LET resid == Residuals
            n == Len(resid)
        IN  /\ n > 0
            /\ view.mae = fdiv(pairwise_sum(resid), n)
            /\ (view.verdict_text = "Accurate Logic") <=> flt(view.mae, Whole(5))
            /\ view.verdict_text \in {"Accurate Logic", "Model Missed"}
            /\ (\A k \in 1..n : resid[k] = Whole(0))
                   => (view.mae = Whole(0) /\ view.verdict_text = "Accurate Logic")

\* What the review does compute: the mean over the hours in range whose
\* residual is a number (NaN when no hour has one), 'accurate' exactly when
\* that mean is below 5, and MAE 0 when every residual is 0.
MeanOfObservedHours ==
    pc = "historicals" =>
        LET resid == Residuals
            seen == {k \in 1..Len(resid) : ~IsNaN(resid[k])}
        IN  /\ view.mae = IF seen = {} THEN NaN
                          ELSE fdiv(pairwise_sum(fill_zero(resid)),
                                    Cardinality(seen))
            /\ (view.verdict_text = "Accurate Logic") <=> flt(view.mae, Whole(5))
            /\ view.verdict_text \in {"Accurate Logic", "Model Missed"}
            /\ (\A k \in 1..Len(resid) : resid[k] = Whole(0))
                   => (view.mae = Whole(0) /\ view.verdict_text = "Accurate Logic")

\* A reviewed day with the wind speed missing at 13:00 and one residual of
\* 4.618527782440651e-14 at 12:00: the MAE is that residual over the 11
\* hours left, 4.198661620400592e-15, not over the 12 hours of the range.
NullHourSkipped ==
    /\ pc = "historicals"
    /\ Len(df) = 12
    /\ {i \in 1..Len(df) : IsNaN(df[i].error)} = {4}
    /\ {i \in 1..Len(df) : df[i].error # Whole(0)} = {3, 4}
    /\ view.mae = fdiv(fabs(df[3].error), 11)
    /\ view.mae # fdiv(fabs(df[3].error), 12)
    /\ view.verdict_text = "Accurate Logic"

\* A reviewed day with no observed wind speed between 10:00 and 21:00: the
\* MAE is NaN and the verdict 'model missed'.
NothingObservedMissed ==
    /\ pc = "historicals"
    /\ Len(df) = 12
    /\ \A i \in 1..Len(df) : IsNaN(df[i].wind_base) /\ df[i].status = "Light"
    /\ IsNaN(view.mae)
    /\ view.verdict_text = "Model Missed"

\* A reviewed day on which every prediction in range equals the observation
\* while one outside the range does not.
C8_Witness ==
    /\ pc = "historicals"
    /\ \A i \in 1..Len(df) : df[i].steady = df[i].wind_base
    /\ \E i \in 1..Len(sq) \ ReviewHours : sq[i].pressure_msl = Thermal.pressure_msl
    /\ view.mae = Whole(0)
    /\ view.verdict_text = "Accurate Logic"

\* A day with one residual of 4.618527782440651e-14 among twelve hours has
\* MAE 3.848773152033876e-15 and is accurate.
C8_WitnessTiny ==
    /\ pc = "historicals"
    /\ view.mae = fdiv(fabs(fsub(fadd(Whole(16),
                                      fmul(fsub(fsub(Dec(10026, 10), Dec(10000, 10)),
                                                Dec(25, 10)), Whole(2))),
                                 Dec(162, 10))), 12)
    /\ flt(Whole(0), view.mae)
    /\ view.verdict_text = "Accurate Logic"

\* An MAE of exactly 5 is not accurate.
C8_WitnessBoundary ==
    /\ pc = "historicals"
    /\ view.mae = Whole(5)
    /\ view.verdict_text = "Model Missed"

\* C10: in the review every Light hour has residual 0, so a day whose hours
\* in range are all Light gets MAE 0 and 'accurate' whatever wind was observed.
C10_LightResidualZero ==
    pc = "historicals" =>
        /\ \A i \in 1..Len(df) : df[i].status = "Light" => df[i].error = Whole(0)
        /\ (\A i \in ReviewHours :
                /\ fle(sq[i].temperature_2m, Whole(31))
                /\ ~(fgt(sq[i].precipitation, Whole(2))
                     /\ flt(sq[i].pressure_msl, Whole(1008)))
                /\ flt(fsub(yvr[i].pressure_msl, sq[i].pressure_msl), Dec(25, 10)))
               => (view.mae = Whole(0) /\ view.verdict_text = "Accurate Logic")

\* What the review does honour: a Light hour whose wind speed was observed
\* has residual 0, and a day whose hours in range are all Light gets MAE 0
\* and 'accurate' when the wind speed of at least one of them was observed.
LightResidualZeroWhenObserved ==
    pc = "historicals" =>
        /\ \A i \in 1..Len(df) :
               (df[i].status = "Light" /\ ~IsNaN(df[i].wind_base))
                   => df[i].error = Whole(0)
        /\ ((\A i \in 1..Len(df) : df[i].status = "Light")
            /\ (\E i \in 1..Len(df) : ~IsNaN(df[i].wind_base)))
               => (view.mae = Whole(0) /\ view.verdict_text = "Accurate Logic")

\* A Light hour without an observed wind speed has the residual NaN.
LightHourWithoutWind ==
    /\ pc = "historicals"
    /\ \E i \in 1..Len(df) :
           /\ df[i].status = "Light"
           /\ IsNaN(df[i].wind_base)
           /\ IsNaN(df[i].error)

\* A reviewed day whose hours in range are all Light, with different
\* observed winds among them.
C10_Witness ==
    /\ pc = "historicals"
    /\ Len(df) = 12
    /\ \A i \in 1..Len(df) : df[i].status = "Light"
    /\ \E i, j \in 1..Len(df) :
           df[i].wind_base = Whole(7) /\ df[j].wind_base = Whole(20)
    /\ view.verdict_text = "Accurate Logic"

----------------------------------------------------------------------------
(* Property of the normaliser (checked under SpecData) *)

TimesOf(series) == [i \in 1..Len(series) |-> series[i].time]

\* C4: when the two series differ in the length or content of their
\* timestamps, process_data ends in an error and produces no hourly record.
C4_MisalignedFails ==
    (pc = "processed" /\ TimesOf(sq) # TimesOf(yvr)) =>
        (view = "Error processing data" /\ df = <<>>)

\* What the code does honour: series of different lengths end in an error.
LengthMismatchFails ==
    (pc = "processed" /\ Len(sq) # Len(yvr)) =>
        (view = "Error processing data" /\ df = <<>>)

====
